---- MODULE Spec2Model ----
(***************************************************************************)
(* paralexe: the Scheduler (priority queue of steps, bounded pool per      *)
(* step, foreground / background runs) as a state machine.                 *)
(*                                                                         *)
(* A Worker is modelled by its identity: its id (position in its batch),   *)
(* the number of the queue call that brought it in, and, for a dict input, *)
(* the dict key it was listed under.  What its run() returns is chosen     *)
(* when the job finishes.                                                  *)
(***************************************************************************)
EXTENDS Integers, Sequences, FiniteSets, TLC

\* ---- bounds of the model ------------------------------------------------
MaxPrio == 1          \* priorities a caller passes are 0..MaxPrio
MaxJobs == 2          \* a step holds at most MaxJobs workers
MaxLabel == 1         \* labels a caller passes are 1..MaxLabel
MaxQueueCalls == 2    \* number of queue() calls in a behaviour
MaxSubmits == 2       \* number of submit() calls in a behaviour
NThreads == 2         \* n_threads given to the constructor
MaxDictKeys == 2      \* a dict passed to queue() has at most this many keys
MaxRcode == 2         \* a process returns a code in -MaxRcode..MaxRcode
MaxLineLen == 2       \* characters in a line of output or in an error term
MaxLines == 2         \* lines a stream splits into
MaxTerms == 1         \* error terms a Worker is configured with
MaxPoolJobs == 3      \* workers in the list given to the constructor

\* ---- values ---------------------------------------------------------------
NoneVal == 0 - 1      \* Python None where an int (priority, order) is expected
NoLabel == 0          \* Python None where a label is expected
Prios == 0 .. MaxPrio
Labels == 1 .. MaxLabel
Rcodes == {0, 1, 2}   \* 0 success, 1 failure, 2 stands for any other value

VARIABLES
    queues_is_none,        \* self._queues is None
    queues,                \* self._queues: priority -> list of workers
    queues_labels,         \* self._queues_labels: priority -> label
    background_binder,     \* self._background_binder: 0 (None) or a run
    submitted,             \* self._submitted
    num_steps,             \* self._num_steps
    succeeded_steps,       \* self._succeeded_steps
    failed_steps,          \* self._failed_steps
    incomplete_steps,      \* self._incomplete_steps
    total_num_of_workers,  \* self._total_num_of_workers
    failed_workers,        \* self._failed_workers
    succeeded_workers,     \* self._succeeded_workers
    runs,                  \* the workflow() activations, one per submit call
    caller,                \* the calling thread: "idle", "blocked" (in submit) or "joining"
    out_collector,         \* self._stdout_collector / self._stderr_collector
    ncalls,                \* number of queue() calls made so far
    last_call,             \* arguments and outcome of the latest queue() call
    worker,                \* a Worker with its process handle, before and after run()
    manager                \* a Manager: its command, arguments and deployed workers

vars == <<queues_is_none, queues, queues_labels, background_binder, submitted,
          num_steps, succeeded_steps, failed_steps, incomplete_steps,
          total_num_of_workers, failed_workers, succeeded_workers,
          out_collector, runs, caller, ncalls, last_call, worker, manager>>

counters == <<num_steps, succeeded_steps, failed_steps, incomplete_steps,
              total_num_of_workers, failed_workers, succeeded_workers,
              out_collector>>

\* ---- Python helpers -------------------------------------------------------
EmptyDict == [x \in {} |-> 0]

InList(x, list) == \E i \in 1 .. Len(list) : list[i] = x

\* list.remove(x) under "except ValueError: pass": drops the first occurrence
Remove(list, x) ==
    IF InList(x, list)
    THEN LET k == CHOOSE i \in 1 .. Len(list) :
                     list[i] = x /\ \A j \in 1 .. (i - 1) : list[j] # x
         IN  [i \in 1 .. (Len(list) - 1) |-> IF i < k THEN list[i] ELSE list[i + 1]]
    ELSE list

\* dict[k] = v
Put(d, k, v) == [x \in (DOMAIN d) \cup {k} |-> IF x = k THEN v ELSE d[x]]

Max(S) == CHOOSE x \in S : \A y \in S : y <= x
Min(S) == CHOOSE x \in S : \A y \in S : x <= y

RECURSIVE Descending(_)
Descending(S) == IF S = {} THEN <<>> ELSE <<Max(S)>> \o Descending(S \ {Max(S)})

\* the keys taken in the wrong order
SortedKeysReversed(S) == Descending(S)

RECURSIVE Ascending(_)
Ascending(S) == IF S = {} THEN <<>> ELSE <<Min(S)>> \o Ascending(S \ {Min(S)})

\* sorted(self._queues.keys())
SortedKeys(S) == Ascending(S)

\* a batch of n workers as JobAllocator.allocation builds it: ids 0..n-1
Batch(n, c, k) == [i \in 1 .. n |-> [id |-> i - 1, batch |-> c, key |-> k]]

\* ---- Scheduler.queue ------------------------------------------------------
\* the loop of lines 266-268 keeps the last matching order it meets; queue()
\* passes a label on its first call only (line 247), when the index is empty
LabelIndex(label) ==
    IF label # NoLabel /\ \E o \in DOMAIN queues_labels : queues_labels[o] = label
    THEN Max({o \in DOMAIN queues_labels : queues_labels[o] = label})
    ELSE NoneVal

\* Scheduler._inspect_inputs(workers, priority, label): the dict it returns,
\* what it leaves in _queues_labels, _failed_steps, _incomplete_steps, and
\* whether max() of an empty key view raised ValueError (line 292).
\* w is [kind, list, dict]: a list of workers or a dict priority -> list.
InspectInputs(w, priority, label) ==
    LET label_index == LabelIndex(label)
        dropped  == label # NoLabel /\ InList(label_index, succeeded_steps)
        requeue  == /\ label # NoLabel
                    /\ ~dropped
                    /\ \/ InList(label_index, failed_steps)
                       \/ InList(label_index, incomplete_steps)
        failed1     == IF requeue THEN Remove(failed_steps, label_index)
                       ELSE failed_steps
        incomplete1 == IF requeue THEN Remove(incomplete_steps, label_index)
                       ELSE incomplete_steps
        priority1 == IF requeue THEN label_index ELSE priority
        raises    == priority1 = NoneVal /\ ~queues_is_none /\ DOMAIN queues = {}
        priority2 == IF priority1 # NoneVal THEN priority1
                     ELSE IF queues_is_none THEN 0
                     ELSE Max(DOMAIN queues) + 1
    IN  IF dropped
        THEN [raised |-> FALSE, ret |-> EmptyDict, labels |-> queues_labels,
              failed |-> failed_steps, incomplete |-> incomplete_steps]
        ELSE IF raises
        THEN [raised |-> TRUE, ret |-> EmptyDict, labels |-> queues_labels,
              failed |-> failed1, incomplete |-> incomplete1]
        ELSE IF w.kind = "list"
        THEN [raised |-> FALSE, ret |-> (priority2 :> w.list),
              labels |-> Put(queues_labels, priority2, label),
              failed |-> failed1, incomplete |-> incomplete1]
        ELSE [raised |-> FALSE, ret |-> w.dict,
              labels |-> [p \in (DOMAIN queues_labels) \cup (DOMAIN w.dict) |->
                             IF p \in DOMAIN w.dict THEN label ELSE queues_labels[p]],
              failed |-> failed1, incomplete |-> incomplete1]

\* Scheduler._update_queues(workers, label) on queue q and label index labels
UpdateQueues(q, labels, workers, label) ==
    [queues |-> [p \in (DOMAIN q) \cup (DOMAIN workers) |->
                    IF p \in DOMAIN q /\ p \in DOMAIN workers THEN q[p] \o workers[p]
                    ELSE IF p \in DOMAIN workers THEN workers[p]
                    ELSE q[p]],
     labels |-> [p \in (DOMAIN labels) \cup
                       {x \in (DOMAIN workers) \ (DOMAIN q) : label # NoLabel} |->
                    IF p \in (DOMAIN workers) \ (DOMAIN q) /\ label # NoLabel
                    THEN label ELSE labels[p]]]

\* the call stays within the model: the priority a call without priority
\* lands on is at most MaxPrio, and no step grows beyond MaxJobs workers
InBounds(w, priority) ==
    /\ (w.kind = "list" /\ priority = NoneVal /\ ~queues_is_none /\ DOMAIN queues # {})
          => Max(DOMAIN queues) + 1 <= MaxPrio
    /\ (w.kind = "list" /\ priority \in DOMAIN queues)
          => Len(queues[priority]) + Len(w.list) <= MaxJobs
    /\ \A p \in (DOMAIN w.dict) \cap (DOMAIN queues) :
          Len(queues[p]) + Len(w.dict[p]) <= MaxJobs

\* a queue() that hands its label to _inspect_inputs on every call
PassedLabelAlways(label) == label

\* lines 246-249: queue() hands its label to _inspect_inputs on its first
\* call only
PassedLabel(label) == IF queues_is_none THEN label ELSE NoLabel

\* Scheduler.queue(workers, priority, label)
queue(w, priority, label) ==
    /\ caller = "idle"
    /\ ncalls < MaxQueueCalls
    /\ InBounds(w, priority)
    /\ LET r == InspectInputs(w, IF queues_is_none THEN 0 ELSE priority,
                              PassedLabel(label))
           u == UpdateQueues(queues, r.labels, r.ret, label)
       IN  /\ failed_steps' = r.failed
           /\ incomplete_steps' = r.incomplete
           /\ IF r.raised
              THEN UNCHANGED <<queues_is_none, queues, queues_labels>>
              ELSE /\ queues_is_none' = FALSE
                   /\ queues' = IF queues_is_none THEN r.ret ELSE u.queues
                   /\ queues_labels' = IF queues_is_none THEN r.labels ELSE u.labels
           /\ last_call' = [kind |-> w.kind,
                            n |-> IF w.kind = "list" THEN Len(w.list) ELSE 0,
                            keys |-> IF w.kind = "dict" THEN DOMAIN w.dict ELSE {},
                            priority |-> priority, label |-> label,
                            raised |-> r.raised]
    /\ ncalls' = ncalls + 1
    /\ UNCHANGED <<background_binder, submitted, num_steps, succeeded_steps,
                   total_num_of_workers, failed_workers, succeeded_workers,
                   out_collector, runs, caller, worker>>

\* queue() with a list of workers (what Manager.schedule passes)
QueueList ==
    \E n \in 1 .. MaxJobs, priority \in Prios \cup {NoneVal},
       label \in Labels \cup {NoLabel} :
        /\ queue([kind |-> "list", list |-> Batch(n, ncalls + 1, NoneVal),
                  dict |-> EmptyDict], priority, label)
        /\ UNCHANGED manager

\* queue() with a dict priority -> list of one worker, and no priority
QueueDict ==
    \E keys \in SUBSET Prios, label \in Labels \cup {NoLabel} :
        /\ Cardinality(keys) <= MaxDictKeys
        /\ queue([kind |-> "dict", list |-> <<>>,
                  dict |-> [p \in keys |-> Batch(1, ncalls + 1, p)]],
                 NoneVal, label)
        /\ UNCHANGED manager

\* ---- Scheduler.submit -----------------------------------------------------
\* a workflow() activation before its thread has run a line; `seen` keeps the
\* steps that were in _succeeded_steps when submit() was called
NewRun(mode, use_label) ==
    [pc |-> "start", mode |-> mode, use_label |-> use_label,
     orders |-> <<>>, order |-> NoneVal, workers |-> <<>>, st |-> <<>>,
     executed |-> <<>>, seen |-> succeeded_steps]

\* Scheduler.submit(mode, use_label): a foreground call keeps the caller in
\* workflow() until it returns or raises, a background call starts a thread
submit(mode, use_label) ==
    /\ caller = "idle"
    /\ Len(runs) < MaxSubmits
    /\ submitted' = TRUE
    /\ runs' = Append(runs, NewRun(mode, use_label))
    /\ caller' = IF mode = "foreground" THEN "blocked" ELSE "idle"
    /\ background_binder' = IF mode = "background" THEN Len(runs) + 1
                            ELSE background_binder
    /\ UNCHANGED <<queues_is_none, queues, queues_labels, counters, ncalls, last_call, worker, manager>>

\* submit() / submit(mode='foreground') from the calling thread
SubmitFg == \E use_label \in BOOLEAN : submit("foreground", use_label)

\* the caller of a foreground run gets control back when workflow() ends
Release(r) == IF runs[r].mode = "foreground" THEN "idle" ELSE caller

\* a run that has left workflow(): by return ("done") or by an exception
Ended(run, pc) == [run EXCEPT !.pc = pc, !.orders = <<>>]

\* the key of the output collectors for a step (lines 65-68 and 89-92)
CollectorKey(use_label, order) ==
    IF use_label THEN <<"label", queues_labels[order]>> ELSE <<"order", order>>

\* lines 56-61: the queue is looked at once, when the loop is entered
RunBegin(r) ==
    /\ runs[r].pc = "start"
    /\ IF queues_is_none
       THEN /\ runs' = [runs EXCEPT ![r] = Ended(@, "done")]
            /\ caller' = Release(r)
            /\ UNCHANGED num_steps
       ELSE /\ num_steps' = Cardinality(DOMAIN queues)
            /\ runs' = [runs EXCEPT ![r].pc = "loop",
                                    ![r].orders = SortedKeys(DOMAIN queues)]
            /\ UNCHANGED caller
    /\ UNCHANGED <<queues_is_none, queues, queues_labels, background_binder,
                   submitted, succeeded_steps, failed_steps, incomplete_steps,
                   total_num_of_workers, failed_workers, succeeded_workers,
                   out_collector, ncalls, last_call, worker, manager>>

\* the loop passing over no step
SkippedNever(order) == FALSE

\* line 62: does the loop pass over this order
Skipped(order) == InList(order, succeeded_steps)

\* lines 62-63: a step in _succeeded_steps is passed over
SkipStep(r) ==
    /\ runs[r].pc = "loop"
    /\ runs[r].orders # <<>>
    /\ Skipped(Head(runs[r].orders))
    /\ runs' = [runs EXCEPT ![r].orders = Tail(@)]
    /\ UNCHANGED <<queues_is_none, queues, queues_labels, background_binder,
                   submitted, counters, caller, ncalls, last_call, worker, manager>>

\* lines 64-80: the counters of the step are initialised and its workers are
\* handed to the pool
StartStep(r) ==
    /\ runs[r].pc = "loop"
    /\ runs[r].orders # <<>>
    /\ ~Skipped(Head(runs[r].orders))
    /\ LET order == Head(runs[r].orders)
           label == CollectorKey(runs[r].use_label, order)
       IN  /\ incomplete_steps' = <<>>
           /\ failed_steps' = <<>>
           /\ succeeded_workers' = Put(succeeded_workers, order, <<>>)
           /\ failed_workers' = Put(failed_workers, order, <<>>)
           /\ out_collector' = Put(out_collector, label, EmptyDict)
           /\ total_num_of_workers' = Put(total_num_of_workers, order, Len(queues[order]))
           /\ runs' = [runs EXCEPT ![r].pc = "step",
                                   ![r].orders = Tail(@),
                                   ![r].order = order,
                                   ![r].workers = queues[order],
                                   ![r].st = [i \in 1 .. Len(queues[order]) |-> "queued"],
                                   ![r].executed = Append(@, order)]
    /\ UNCHANGED <<queues_is_none, queues, queues_labels, background_binder,
                   submitted, num_steps, succeeded_steps, caller, ncalls, last_call, worker, manager>>

Running(run) == {i \in 1 .. Len(run.st) : run.st[i] = "running"}
Queued(run)  == {i \in 1 .. Len(run.st) : run.st[i] = "queued"}

\* ThreadPool(self._n_threads): a pool thread takes a task only when one is free
PoolHasRoom(run) == Cardinality(Running(run)) < NThreads

\* a pool thread takes the next task of the step and calls Scheduler.request;
\* the pool outlives a workflow() that raised, so its tasks may still start
JobStart(r) ==
    /\ runs[r].pc \in {"step", "error"}
    /\ Queued(runs[r]) # {}
    /\ PoolHasRoom(runs[r])
    /\ runs' = [runs EXCEPT ![r].st[Min(Queued(runs[r]))] = "running"]
    /\ UNCHANGED <<queues_is_none, queues, queues_labels, background_binder,
                   submitted, counters, caller, ncalls, last_call, worker, manager>>

\* lines 80-94: worker i returned rcode and the loop body handles the result
JobDone(r, i, rcode) ==
    /\ runs[r].pc = "step"
    /\ i \in Running(runs[r])
    /\ LET order == runs[r].order
           idx   == runs[r].workers[i].id
           label == CollectorKey(runs[r].use_label, order)
           raise == rcode \notin {0, 1} \/ label \notin DOMAIN out_collector
       IN  /\ failed_workers' = IF rcode = 1
                                THEN [failed_workers EXCEPT ![order] = Append(@, idx)]
                                ELSE failed_workers
           /\ succeeded_workers' = IF rcode = 0
                                   THEN [succeeded_workers EXCEPT ![order] = Append(@, idx)]
                                   ELSE succeeded_workers
           /\ out_collector' = IF raise THEN out_collector
                               ELSE [out_collector EXCEPT ![label] =
                                        Put(@, idx, runs[r].workers[i])]
           /\ runs' = IF raise
                      THEN [runs EXCEPT ![r] = Ended([@ EXCEPT !.st[i] = "done"], "error")]
                      ELSE [runs EXCEPT ![r].st[i] = "done"]
           /\ caller' = IF raise THEN Release(r) ELSE caller
    /\ UNCHANGED <<queues_is_none, queues, queues_labels, background_binder,
                   submitted, num_steps, succeeded_steps, failed_steps,
                   incomplete_steps, total_num_of_workers, ncalls, last_call, worker, manager>>

\* worker.run() of worker i raised: imap_unordered re-raises it in the loop
JobRaise(r, i) ==
    /\ runs[r].pc = "step"
    /\ i \in Running(runs[r])
    /\ runs' = [runs EXCEPT ![r] = Ended([@ EXCEPT !.st[i] = "done"], "error")]
    /\ caller' = Release(r)
    /\ UNCHANGED <<queues_is_none, queues, queues_labels, background_binder,
                   submitted, counters, ncalls, last_call, worker, manager>>

\* a worker of a run that raised finishes: nobody reads its result
JobDrain(r, i) ==
    /\ runs[r].pc = "error"
    /\ i \in Running(runs[r])
    /\ runs' = [runs EXCEPT ![r].st[i] = "done"]
    /\ UNCHANGED <<queues_is_none, queues, queues_labels, background_binder,
                   submitted, counters, caller, ncalls, last_call, worker, manager>>

\* line 96: a list compared with the int 0
EqualsZero(list) == FALSE

\* lines 96-102: the terminal state of the step, "failed" / "incomplete" /
\* "succeeded", from the succeeded workers and the recorded total
Classify(succeeded, total) ==
    IF EqualsZero(succeeded) THEN "failed"
    ELSE IF total > Len(succeeded) THEN "incomplete"
    ELSE "succeeded"

\* the loop leaving imap_unordered at the first result
AllDoneFirst(run) == \E i \in 1 .. Len(run.st) : run.st[i] = "done"

\* line 80: imap_unordered is exhausted when every worker has been yielded
AllDone(run) == \A i \in 1 .. Len(run.st) : run.st[i] = "done"

\* lines 96-102, reached when imap_unordered has yielded every result
EndStep(r) ==
    /\ runs[r].pc = "step"
    /\ AllDone(runs[r])
    /\ LET order == runs[r].order
           state == Classify(succeeded_workers[order], total_num_of_workers[order])
       IN  /\ failed_steps' = IF state = "failed" THEN Append(failed_steps, order)
                              ELSE failed_steps
           /\ incomplete_steps' = IF state = "incomplete"
                                  THEN Append(incomplete_steps, order)
                                  ELSE incomplete_steps
           /\ succeeded_steps' = IF state = "succeeded"
                                 THEN Append(succeeded_steps, order)
                                 ELSE succeeded_steps
    /\ runs' = [runs EXCEPT ![r].pc = "loop", ![r].workers = <<>>, ![r].st = <<>>]
    /\ UNCHANGED <<queues_is_none, queues, queues_labels, background_binder,
                   submitted, num_steps, total_num_of_workers, failed_workers,
                   succeeded_workers, out_collector, caller, ncalls, last_call, worker, manager>>

\* the for loop of line 61 is exhausted: workflow() returns
RunEnd(r) ==
    /\ runs[r].pc = "loop"
    /\ runs[r].orders = <<>>
    /\ runs' = [runs EXCEPT ![r] = Ended(@, "done")]
    /\ caller' = Release(r)
    /\ UNCHANGED <<queues_is_none, queues, queues_labels, background_binder,
                   submitted, counters, ncalls, last_call, worker, manager>>

\* ---- Worker.run ----------------------------------------------------------
\* the characters of output lines and error terms: a letter in both cases
\* and another letter
Chars == {"e", "E", "x"}

\* str.lower() on one character
LowerChar(c) == IF c = "E" THEN "e" ELSE c

\* str.lower()
Lower(str) == [i \in 1 .. Len(str) |-> LowerChar(str[i])]

\* Python's `sub in str`
Contains(sub, str) ==
    \E k \in 0 .. Len(str) - Len(sub) :
        \A i \in 1 .. Len(sub) : str[k + i] = sub[i]

\* the strings of at most n characters
Strings(n) == UNION {[1 .. k -> Chars] : k \in 0 .. n}

\* what a stream read() returns, as bytedata.decode('utf-8').split('\n')
\* gives it: one or more lines; the empty byte string is the one empty line
Streams == UNION {[1 .. k -> Strings(MaxLineLen)] : k \in 1 .. MaxLines}

\* len(bytedata) is 0
IsEmptyBytes(stream) == stream = << <<>> >>

\* Python's None where a list is expected
None == [none |-> TRUE, list |-> <<>>]

\* a Python list
Some(list) == [none |-> FALSE, list |-> list]

NonEmptyLine(o) == Len(o) > 0

\* worker.py 72-78: Worker.__pars_output
pars_output(bytedata) ==
    IF IsEmptyBytes(bytedata) THEN None
    ELSE Some(SelectSeq(bytedata, NonEmptyLine))

\* worker.py 52-56: check_error(line)
check_error(line, error_term) ==
    \E j \in 1 .. Len(error_term) : Contains(Lower(error_term[j]), Lower(line))

\* worker.py 67: the test on the return code
RcodeFails(rcode) == rcode > 0

\* worker.py 39-70: Worker.run on a process handle that finished with return
\* code `rcode` and the two streams; gives the value returned, the output
\* attribute and self._rcode
WorkerRun(rcode, out, err, error_term) ==
    LET stdout == pars_output(out)
        stderr == pars_output(err)
    IN  IF ~stderr.none /\ ~error_term.none
        THEN IF \E i \in 1 .. Len(stderr.list) : check_error(stderr.list[i], error_term.list)
             THEN [ret |-> 1, output |-> <<stdout, stderr>>, rcode |-> rcode]
             ELSE [ret |-> 0, output |-> <<stderr, stdout>>, rcode |-> 0]
        ELSE [ret |-> IF RcodeFails(rcode) THEN 1 ELSE 0,
              output |-> <<stdout, stderr>>, rcode |-> rcode]

\* the return codes of a finished process
ProcessRcodes == (0 - MaxRcode) .. MaxRcode

\* the error_term argument of Worker(): None or a list of strings
ErrorTerms ==
    {None} \cup {Some(l) : l \in UNION {[1 .. k -> Strings(MaxLineLen)] : k \in 0 .. MaxTerms}}

\* no Worker under observation
NoWorker == [pc |-> "none"]

\* no Manager in the program
NoManager == [pc |-> "none"]

\* Worker(id, executor, error_term=...) whose executor will finish with the
\* given return code and streams
NewWorker(rcode, out, err, error_term) ==
    [pc |-> "new", h_rcode |-> rcode, h_stdout |-> out, h_stderr |-> err,
     error_term |-> error_term]

\* worker.run() has returned
RanWorker(w) ==
    LET res == WorkerRun(w.h_rcode, w.h_stdout, w.h_stderr, w.error_term)
    IN  [pc |-> "ran", h_rcode |-> w.h_rcode, h_stdout |-> w.h_stdout,
         h_stderr |-> w.h_stderr, error_term |-> w.error_term,
         ret |-> res.ret, output |-> res.output, rcode |-> res.rcode]

\* ---- the scheduler ----------------------------------------------------------
\* Scheduler(): lines 19-34 with workers=None
SchedulerNew ==
    /\ queues_is_none = TRUE
    /\ queues = EmptyDict
    /\ queues_labels = EmptyDict
    /\ background_binder = 0
    /\ submitted = FALSE
    /\ num_steps = 0
    /\ succeeded_steps = <<>>
    /\ failed_steps = <<>>
    /\ incomplete_steps = <<>>
    /\ total_num_of_workers = EmptyDict
    /\ failed_workers = EmptyDict
    /\ succeeded_workers = EmptyDict
    /\ out_collector = EmptyDict
    /\ runs = <<>>
    /\ caller = "idle"
    /\ ncalls = 0
    /\ last_call = [kind |-> "none", n |-> 0, keys |-> {}, priority |-> NoneVal,
                    label |-> NoLabel, raised |-> FALSE]

Init ==
    /\ SchedulerNew
    /\ worker = NoWorker
    /\ manager = NoManager

Next ==
    \/ QueueList
    \/ QueueDict
    \/ SubmitFg
    \/ \E r \in 1 .. Len(runs) : RunBegin(r)
    \/ \E r \in 1 .. Len(runs) : SkipStep(r)
    \/ \E r \in 1 .. Len(runs) : StartStep(r)
    \/ \E r \in 1 .. Len(runs) : JobStart(r)
    \/ \E r \in 1 .. Len(runs), i \in 1 .. MaxJobs, rcode \in Rcodes : JobDone(r, i, rcode)
    \/ \E r \in 1 .. Len(runs), i \in 1 .. MaxJobs : JobRaise(r, i)
    \/ \E r \in 1 .. Len(runs), i \in 1 .. MaxJobs : JobDrain(r, i)
    \/ \E r \in 1 .. Len(runs) : EndStep(r)
    \/ \E r \in 1 .. Len(runs) : RunEnd(r)

\* one calling thread that queues batches and submits in the foreground
\* (submit(mode, use_label) also covers mode = "background")
Spec == Init /\ [][Next]_vars

\* ---- a scheduler constructed with its workers -----------------------------
\* Scheduler(workers=w, n_threads=NThreads, label=label): lines 19-34, where
\* queue() is the first call: a list goes to priority 0, a dict is taken as
\* it is, and every priority gets the label (lines 246-247 and 296-305)
Constructed(w, label) ==
    /\ queues_is_none = FALSE
    /\ queues = IF w.kind = "list" THEN (0 :> w.list) ELSE w.dict
    /\ queues_labels = [p \in DOMAIN queues |-> label]
    /\ background_binder = 0
    /\ submitted = FALSE
    /\ num_steps = 0
    /\ succeeded_steps = <<>>
    /\ failed_steps = <<>>
    /\ incomplete_steps = <<>>
    /\ total_num_of_workers = EmptyDict
    /\ failed_workers = EmptyDict
    /\ succeeded_workers = EmptyDict
    /\ out_collector = EmptyDict
    /\ runs = <<>>
    /\ caller = "idle"
    /\ ncalls = 1
    /\ last_call = [kind |-> w.kind,
                    n |-> IF w.kind = "list" THEN Len(w.list) ELSE 0,
                    keys |-> IF w.kind = "dict" THEN DOMAIN w.dict ELSE {},
                    priority |-> NoneVal, label |-> label, raised |-> FALSE]

\* a list of n workers as the workers argument
ListOf(n) == [kind |-> "list", list |-> Batch(n, 1, NoneVal), dict |-> EmptyDict]

\* a dict with one worker under each key as the workers argument
DictOf(keys) == [kind |-> "dict", list |-> <<>>, dict |-> [p \in keys |-> Batch(1, 1, p)]]

InitPool ==
    /\ \E n \in 1 .. MaxPoolJobs, label \in Labels \cup {NoLabel} :
          Constructed(ListOf(n), label)
    /\ worker = NoWorker
    /\ manager = NoManager

NextPool ==
    \/ SubmitFg
    \/ \E r \in 1 .. Len(runs) : RunBegin(r)
    \/ \E r \in 1 .. Len(runs) : SkipStep(r)
    \/ \E r \in 1 .. Len(runs) : StartStep(r)
    \/ \E r \in 1 .. Len(runs) : JobStart(r)
    \/ \E r \in 1 .. Len(runs), i \in 1 .. MaxPoolJobs, rcode \in Rcodes : JobDone(r, i, rcode)
    \/ \E r \in 1 .. Len(runs), i \in 1 .. MaxPoolJobs : JobRaise(r, i)
    \/ \E r \in 1 .. Len(runs), i \in 1 .. MaxPoolJobs : JobDrain(r, i)
    \/ \E r \in 1 .. Len(runs) : EndStep(r)
    \/ \E r \in 1 .. Len(runs) : RunEnd(r)

\* foreground runs of one step that may hold more workers than the pool has
\* threads
SpecPool == InitPool /\ [][NextPool]_vars

\* ---- background runs ------------------------------------------------------
\* submit(mode='background'): lines 109-113
SubmitBg == \E use_label \in BOOLEAN : submit("background", use_label)

\* lines 64-73 of a background workflow(): the step lists are emptied and the
\* step's lists of succeeded and failed workers are created
StartStepA(r) ==
    /\ runs[r].pc = "loop"
    /\ runs[r].orders # <<>>
    /\ ~Skipped(Head(runs[r].orders))
    /\ LET order == Head(runs[r].orders)
       IN  /\ incomplete_steps' = <<>>
           /\ failed_steps' = <<>>
           /\ succeeded_workers' = Put(succeeded_workers, order, <<>>)
           /\ failed_workers' = Put(failed_workers, order, <<>>)
           /\ runs' = [runs EXCEPT ![r].pc = "init",
                                   ![r].orders = Tail(@),
                                   ![r].order = order]
    /\ UNCHANGED <<queues_is_none, queues, queues_labels, background_binder,
                   submitted, num_steps, succeeded_steps, total_num_of_workers,
                   out_collector, caller, ncalls, last_call, worker, manager>>

\* lines 74-80: the collectors and the worker total of the step are written
\* and its workers are handed to the pool
StartStepB(r) ==
    /\ runs[r].pc = "init"
    /\ LET order == runs[r].order
           label == CollectorKey(runs[r].use_label, order)
       IN  /\ out_collector' = Put(out_collector, label, EmptyDict)
           /\ total_num_of_workers' = Put(total_num_of_workers, order, Len(queues[order]))
           /\ runs' = [runs EXCEPT ![r].pc = "step",
                                   ![r].workers = queues[order],
                                   ![r].st = [i \in 1 .. Len(queues[order]) |-> "queued"],
                                   ![r].executed = Append(@, order)]
    /\ UNCHANGED <<queues_is_none, queues, queues_labels, background_binder,
                   submitted, num_steps, succeeded_steps, failed_steps,
                   incomplete_steps, failed_workers, succeeded_workers,
                   caller, ncalls, last_call, worker, manager>>

\* a thread that counts as alive after its workflow() has raised
ThreadAliveAfterRaise(run) == run.pc # "done"

\* threading.Thread.is_alive(): from start() until workflow() returns or raises
ThreadAlive(run) == run.pc \notin {"done", "error"}

\* Scheduler.is_alive(): "None" when no background run was ever submitted
is_alive ==
    IF background_binder = 0 THEN "None"
    ELSE IF ThreadAlive(runs[background_binder]) THEN "True"
    ELSE "False"

\* what the caller is left with when join(), check_progress() or summary()
\* has returned or raised
Report(kind, raised) ==
    [kind |-> kind, n |-> 0, keys |-> {}, priority |-> NoneVal,
     label |-> NoLabel, raised |-> raised]

\* Scheduler.join() is called: it waits in Thread.join() if is_alive()
join ==
    /\ caller = "idle"
    /\ IF is_alive = "True"
       THEN caller' = "joining" /\ UNCHANGED last_call
       ELSE last_call' = Report("join", FALSE) /\ UNCHANGED caller
    /\ UNCHANGED <<queues_is_none, queues, queues_labels, background_binder,
                   submitted, counters, runs, ncalls, worker, manager>>

\* line 142: Thread.join() returns when the thread has ended
JoinReturn ==
    /\ caller = "joining"
    /\ ~ThreadAlive(runs[background_binder])
    /\ caller' = "idle"
    /\ last_call' = Report("join", FALSE)
    /\ UNCHANGED <<queues_is_none, queues, queues_labels, background_binder,
                   submitted, counters, runs, ncalls, worker, manager>>

\* lines 147-164: a dict lookup of check_progress() raises KeyError
CheckProgressRaises ==
    /\ ~queues_is_none
    /\ \E priority \in DOMAIN queues :
          \/ /\ DOMAIN queues_labels # {}
             /\ priority \notin DOMAIN queues_labels
          \/ /\ priority \in DOMAIN succeeded_workers
             /\ priority \notin DOMAIN total_num_of_workers

\* Scheduler.check_progress()
check_progress ==
    /\ caller = "idle"
    /\ last_call' = Report("check_progress", CheckProgressRaises)
    /\ UNCHANGED <<queues_is_none, queues, queues_labels, background_binder,
                   submitted, counters, runs, caller, ncalls, worker, manager>>

\* lines 169-198: a dict lookup of summary() raises KeyError
SummaryRaises ==
    /\ num_steps # 0
    /\ \E s \in DOMAIN queues :
          \/ /\ DOMAIN queues_labels # {}
             /\ s \notin DOMAIN queues_labels
          \/ /\ s \in DOMAIN total_num_of_workers
             /\ \/ s \notin DOMAIN succeeded_workers
                \/ s \notin DOMAIN failed_workers

\* lines 169 and 200-228: the overall state summary() prints
SummaryState ==
    IF num_steps = 0 THEN "Empty schedule"
    ELSE IF background_binder # 0 /\ is_alive = "True" THEN "Active"
    ELSE IF Len(succeeded_steps) = num_steps THEN "Finished"
    ELSE IF Len(succeeded_steps) < num_steps THEN "Listing"
    ELSE "Submission needed"

\* lines 207-211 and 219-223: the steps the listing names
SummaryListed ==
    {failed_steps[i] : i \in 1 .. Len(failed_steps)}
      \cup {incomplete_steps[i] : i \in 1 .. Len(incomplete_steps)}

\* Scheduler.summary()
summary ==
    /\ caller = "idle"
    /\ last_call' = Report("summary", SummaryRaises)
    /\ UNCHANGED <<queues_is_none, queues, queues_labels, background_binder,
                   submitted, counters, runs, caller, ncalls, worker, manager>>

\* Scheduler(workers=...) with a list of 1..MaxJobs workers or a dict that
\* has one worker under each priority
InitBg ==
    /\ \E w \in {ListOf(n) : n \in 1 .. MaxJobs} \cup {DictOf(Prios)},
          label \in Labels \cup {NoLabel} : Constructed(w, label)
    /\ worker = NoWorker
    /\ manager = NoManager

NextBg ==
    \/ SubmitBg
    \/ SubmitFg
    \/ join
    \/ JoinReturn
    \/ check_progress
    \/ summary
    \/ \E r \in 1 .. Len(runs) : RunBegin(r)
    \/ \E r \in 1 .. Len(runs) : SkipStep(r)
    \/ \E r \in 1 .. Len(runs) : StartStepA(r)
    \/ \E r \in 1 .. Len(runs) : StartStepB(r)
    \/ \E r \in 1 .. Len(runs) : JobStart(r)
    \/ \E r \in 1 .. Len(runs), i \in 1 .. MaxJobs, rcode \in Rcodes : JobDone(r, i, rcode)
    \/ \E r \in 1 .. Len(runs), i \in 1 .. MaxJobs : JobRaise(r, i)
    \/ \E r \in 1 .. Len(runs), i \in 1 .. MaxJobs : JobDrain(r, i)
    \/ \E r \in 1 .. Len(runs) : EndStep(r)
    \/ \E r \in 1 .. Len(runs) : RunEnd(r)

\* a constructed scheduler whose caller submits in the background or in the
\* foreground, joins and asks for reports while the background threads run
SpecBg == InitBg /\ [][NextBg]_vars

\* ---- queue, submit and reports from one calling thread -------------------
NextReport ==
    \/ Next
    \/ summary
    \/ check_progress

\* the calling thread of Spec also asks for summary() and check_progress()
SpecReport == Init /\ [][NextReport]_vars

\* ---- background and foreground runs under fair scheduling ----------------
NextLive ==
    \/ SubmitBg
    \/ SubmitFg
    \/ join
    \/ JoinReturn
    \/ \E r \in 1 .. Len(runs) : RunBegin(r)
    \/ \E r \in 1 .. Len(runs) : SkipStep(r)
    \/ \E r \in 1 .. Len(runs) : StartStepA(r)
    \/ \E r \in 1 .. Len(runs) : StartStepB(r)
    \/ \E r \in 1 .. Len(runs) : JobStart(r)
    \/ \E r \in 1 .. Len(runs), i \in 1 .. MaxJobs, rcode \in Rcodes : JobDone(r, i, rcode)
    \/ \E r \in 1 .. Len(runs), i \in 1 .. MaxJobs : JobRaise(r, i)
    \/ \E r \in 1 .. Len(runs), i \in 1 .. MaxJobs : JobDrain(r, i)
    \/ \E r \in 1 .. Len(runs) : EndStep(r)
    \/ \E r \in 1 .. Len(runs) : RunEnd(r)

\* a step of the threads of run r: the thread in workflow() (the caller's
\* for a foreground run), a pool thread taking a task, or a worker.run()
\* that returns or raises
RunStep(r) ==
    /\ r \in 1 .. Len(runs)
    /\ \/ RunBegin(r)
       \/ SkipStep(r)
       \/ StartStepA(r)
       \/ StartStepB(r)
       \/ JobStart(r)
       \/ \E i \in 1 .. MaxJobs, rcode \in Rcodes : JobDone(r, i, rcode)
       \/ \E i \in 1 .. MaxJobs : JobRaise(r, i)
       \/ \E i \in 1 .. MaxJobs : JobDrain(r, i)
       \/ EndStep(r)
       \/ RunEnd(r)

\* the threads of every run keep running and every worker.run() ends;
\* Thread.join() returns once its thread has ended. The caller is free to
\* make no further call.
Fairness ==
    /\ \A r \in 1 .. MaxSubmits : WF_vars(RunStep(r))
    /\ WF_vars(JoinReturn)

\* a scheduler constructed with one step of 1 .. MaxJobs workers or with one
\* step of one worker at every priority, and no label
InitLive ==
    /\ \E w \in {ListOf(n) : n \in 1 .. MaxJobs} \cup {DictOf(Prios)} :
          Constructed(w, NoLabel)
    /\ worker = NoWorker
    /\ manager = NoManager

SpecLive == InitLive /\ [][NextLive]_vars /\ Fairness

\* ---- one Worker and its process handle ---------------------------------
InitWorker ==
    /\ SchedulerNew
    /\ worker \in {NewWorker(rcode, out, err, error_term) :
                       rcode \in ProcessRcodes,
                       out \in {<< <<>> >>, << <<"x">> >>},
                       err \in Streams,
                       error_term \in ErrorTerms}
    /\ manager = NoManager

\* worker.run()
RunWorker ==
    /\ worker.pc = "new"
    /\ worker' = RanWorker(worker)
    /\ UNCHANGED <<queues_is_none, queues, queues_labels, background_binder,
                   submitted, counters, runs, caller, ncalls, last_call, manager>>

NextWorker == RunWorker

\* Worker.run applied to every process outcome within the bounds
SpecWorker == InitWorker /\ [][NextWorker]_vars

\* ---- JobAllocator: the command template and its expansion ---------------
\* A command, a placeholder name and an argument value are sequences of
\* characters.
MaxPieces == 2        \* a command template is made of at most MaxPieces pieces

\* the pieces templates are made of: two placeholders, the two braces and a
\* letter
Pieces == {<<"*", "[", "a", "]">>, <<"*", "[", "b", "]">>, <<"{">>, <<"}">>, <<"x">>}

\* the labels a caller gives to set_arg
ArgLabels == {<<"a">>, <<"b">>}

\* the values a caller gives to set_arg
ArgValues == {<<"u">>, <<"v">>}

RECURSIVE Concat(_)
Concat(t) == IF t = <<>> THEN <<>> ELSE Head(t) \o Concat(Tail(t))

\* the command templates a caller gives to set_cmd
Templates == {Concat(t) : t \in UNION {[1 .. k -> Pieces] : k \in 0 .. MaxPieces}}

\* the characters of the decorator ['*[', ']'], which a placeholder name
\* cannot hold (the class [^\*\[\]] of line 301)
Special == {"*", "[", "]"}

\* the end of the run of characters from j on that a name can hold
RECURSIVE NameEnd(_, _)
NameEnd(s, j) == IF j > Len(s) \/ s[j] \in Special THEN j ELSE NameEnd(s, j + 1)

NoMatch(i) == [found |-> FALSE, name |-> <<>>, next |-> i + 1]

\* line 301: the match of \*\[[^\*\[\]]+\] at position i of s, if any
MatchAt(s, i) ==
    LET j == NameEnd(s, i + 2)
    IN  IF /\ i + 1 <= Len(s)
           /\ s[i] = "*"
           /\ s[i + 1] = "["
           /\ j > i + 2
           /\ j <= Len(s)
           /\ s[j] = "]"
        THEN [found |-> TRUE, name |-> SubSeq(s, i + 2, j - 1), next |-> j + 1]
        ELSE NoMatch(i)

\* line 302: set(p.findall(command)) from position i on, without decorators
RECURSIVE FindAll(_, _)
FindAll(s, i) ==
    IF i > Len(s) THEN {}
    ELSE LET m == MatchAt(s, i)
         IN  IF m.found THEN {m.name} \cup FindAll(s, m.next)
             ELSE FindAll(s, m.next)

\* line 304: the match of \*\[(name|name|...)\] at position i; with no name
\* the group is empty and the pattern matches "*[]"
NamedMatchAt(s, i, place_holders) ==
    IF place_holders = {}
    THEN IF i + 2 <= Len(s) /\ SubSeq(s, i, i + 2) = <<"*", "[", "]">>
         THEN [found |-> TRUE, name |-> <<>>, next |-> i + 3]
         ELSE NoMatch(i)
    ELSE LET m == MatchAt(s, i)
         IN  IF m.found /\ m.name \in place_holders THEN m ELSE NoMatch(i)

\* line 305: p.sub(r'{\1}', command) from position i on
RECURSIVE Sub(_, _, _)
Sub(s, i, place_holders) ==
    IF i > Len(s) THEN <<>>
    ELSE LET m == NamedMatchAt(s, i, place_holders)
         IN  IF m.found
             THEN (<<"{">> \o m.name \o <<"}">>) \o Sub(s, m.next, place_holders)
             ELSE <<s[i]>> \o Sub(s, m.next, place_holders)

\* lines 294-308
convert_cmd_and_retrieve_placeholder(command) ==
    LET place_holders == FindAll(command, 1)
    IN  [new_command |-> Sub(command, 1, place_holders),
         place_holders |-> place_holders]

\* the end of the field name that starts at j: the next brace
RECURSIVE FieldEnd(_, _)
FieldEnd(s, j) == IF j > Len(s) \/ s[j] \in {"{", "}"} THEN j ELSE FieldEnd(s, j + 1)

Raised == [raised |-> TRUE, out |-> <<>>]

\* line 318: str.format(**kw) from position i on: "{{" and "}}" are the
\* literal braces, "{name}" is the value of name, and a brace alone, a field
\* that is not closed and a name that kw does not hold raise
RECURSIVE Format(_, _, _)
Format(s, i, kw) ==
    IF i > Len(s) THEN [raised |-> FALSE, out |-> <<>>]
    ELSE IF s[i] \in {"{", "}"} /\ i + 1 <= Len(s) /\ s[i + 1] = s[i]
    THEN LET rest == Format(s, i + 2, kw)
         IN  IF rest.raised THEN Raised
             ELSE [raised |-> FALSE, out |-> <<s[i]>> \o rest.out]
    ELSE IF s[i] = "}" THEN Raised
    ELSE IF s[i] = "{"
    THEN LET j == FieldEnd(s, i + 1)
         IN  IF j > Len(s) \/ s[j] = "{" THEN Raised
             ELSE IF SubSeq(s, i + 1, j - 1) \notin DOMAIN kw THEN Raised
             ELSE LET rest == Format(s, j + 1, kw)
                  IN  IF rest.raised THEN Raised
                      ELSE [raised |-> FALSE,
                            out |-> kw[SubSeq(s, i + 1, j - 1)] \o rest.out]
    ELSE LET rest == Format(s, i + 1, kw)
         IN  IF rest.raised THEN Raised
             ELSE [raised |-> FALSE, out |-> <<s[i]>> \o rest.out]

\* an inspection that only asks for an argument for every placeholder
inspection_cmd_missing_only(args, place_holders) ==
    ~(place_holders \subseteq DOMAIN args)

\* lines 321-327: does __inspection_cmd raise
inspection_cmd(args, place_holders) == DOMAIN args # place_holders

\* lines 310-319 on a Manager: the commands of jobs 0 .. n_workers - 1 (at
\* 1 .. n_workers), or the exception of re (no command), of the inspection
\* or of str.format
get_cmdlist(mng) ==
    IF mng.cmd_is_none THEN [raised |-> TRUE, cmds |-> <<>>]
    ELSE LET c == convert_cmd_and_retrieve_placeholder(mng.cmd)
             f == [i \in 1 .. mng.n_workers |->
                      Format(c.new_command, 1,
                             [p \in c.place_holders |-> mng.args[p][i]])]
         IN  IF inspection_cmd(mng.args, c.place_holders)
             THEN [raised |-> TRUE, cmds |-> <<>>]
             ELSE IF \E i \in 1 .. mng.n_workers : f[i].raised
             THEN [raised |-> TRUE, cmds |-> <<>>]
             ELSE [raised |-> FALSE, cmds |-> [i \in 1 .. mng.n_workers |-> f[i].out]]

\* lines 329-341: the Workers, with the ids and commands they are made with
allocation(mng) ==
    LET c == get_cmdlist(mng)
    IN  [raised |-> c.raised,
         workers |-> [i \in 1 .. Len(c.cmds) |-> [id |-> i - 1, cmd |-> c.cmds[i]]]]

\* ---- Manager --------------------------------------------------------------
MaxSetCmd == 1        \* number of set_cmd() calls in a behaviour
MaxSetArg == 2        \* number of set_arg() calls in a behaviour
MaxSchedule == 2      \* number of schedule() calls in a behaviour

\* what the latest call on the Manager was given and whether it raised
MgrCall(op, label, kind, len, raised) ==
    [op |-> op, label |-> label, kind |-> kind, len |-> len, raised |-> raised]

\* Manager(): lines 40-43 and 133-142; the command is None, there are no
\* arguments and no workers
ManagerNew ==
    [cmd_is_none |-> TRUE, cmd |-> <<>>, args |-> EmptyDict, meta |-> {},
     n_workers |-> 0, workers_is_none |-> TRUE, workers |-> <<>>,
     deployed |-> FALSE, nsetcmd |-> 0, nsetarg |-> 0, nschedule |-> 0,
     last |-> MgrCall("new", <<>>, "none", 0, FALSE)]

\* Manager.set_cmd(cmd): lines 45-51
set_cmd(cmd) ==
    /\ caller = "idle"
    /\ manager.nsetcmd < MaxSetCmd
    /\ manager' = [manager EXCEPT !.cmd_is_none = FALSE, !.cmd = cmd,
                                  !.nsetcmd = @ + 1,
                                  !.last = MgrCall("set_cmd", <<>>, "none", 0, FALSE)]
    /\ UNCHANGED <<queues_is_none, queues, queues_labels, background_binder,
                   submitted, counters, runs, caller, ncalls, last_call, worker>>

\* the values a caller gives as args: a list of values, one value (a str),
\* or a tuple, which is iterable and neither a list nor a str
ArgInputs ==
    {[kind |-> "list", list |-> l, value |-> <<>>] :
        l \in UNION {[1 .. k -> ArgValues] : k \in 0 .. MaxJobs}}
      \cup {[kind |-> "scalar", list |-> <<>>, value |-> v] : v \in ArgValues}
      \cup {[kind |-> "tuple", list |-> <<>>, value |-> <<>>]}

\* a comparison that lets a shorter list through
LengthDiffersAbove(args, num_args) == Len(args) > Max(num_args)

\* line 197: the list is not as long as the lists that are set
LengthDiffers(args, num_args) == Len(args) # Max(num_args)

\* Manager.__inspection(args), lines 144-202: whether it raises and the
\* n_workers it leaves. Every value set_arg has stored is a list (lines
\* 90-94), so num_args holds the length of every stored value.
inspection(mng, a) ==
    IF DOMAIN mng.args = {}
    THEN IF a.kind = "list" THEN [raised |-> FALSE, n_workers |-> Len(a.list)]
         ELSE IF a.kind = "scalar" THEN [raised |-> FALSE, n_workers |-> 1]
         ELSE [raised |-> TRUE, n_workers |-> mng.n_workers]
    ELSE IF a.kind # "list"
    THEN [raised |-> a.kind = "tuple", n_workers |-> mng.n_workers]
    ELSE LET num_args == {Len(mng.args[k]) : k \in DOMAIN mng.args}
         IN  IF \E n \in num_args : n # Max(num_args)
             THEN [raised |-> TRUE, n_workers |-> mng.n_workers]
             ELSE IF LengthDiffers(a.list, num_args)
             THEN [raised |-> TRUE, n_workers |-> mng.n_workers]
             ELSE [raised |-> FALSE, n_workers |-> Len(a.list)]

\* lines 90-94: a value that is not a list becomes a list of n_workers copies
Stored(a, n_workers) ==
    IF a.kind = "list" THEN a.list ELSE [i \in 1 .. n_workers |-> a.value]

\* Manager.set_arg(label, args), lines 63-101, with metaupdate=False: the
\* meta information of every index of every stored list is set to None
set_arg(label, a) ==
    /\ caller = "idle"
    /\ manager.nsetarg < MaxSetArg
    /\ LET r == inspection(manager, a)
           raised == manager.cmd_is_none \/ r.raised
           len == IF a.kind = "list" THEN Len(a.list) ELSE 0
           args1 == Put(manager.args, label, Stored(a, r.n_workers))
       IN  manager' =
             IF raised
             THEN [manager EXCEPT !.nsetarg = @ + 1,
                                  !.last = MgrCall("set_arg", label, a.kind, len, TRUE)]
             ELSE [manager EXCEPT !.args = args1,
                                  !.n_workers = r.n_workers,
                                  !.meta = @ \cup UNION {0 .. (Len(args1[k]) - 1) :
                                                            k \in DOMAIN args1},
                                  !.nsetarg = @ + 1,
                                  !.last = MgrCall("set_arg", label, a.kind, len, FALSE)]
    /\ UNCHANGED <<queues_is_none, queues, queues_labels, background_binder,
                   submitted, counters, runs, caller, ncalls, last_call, worker>>

\* Manager.schedule(scheduler, priority, label), lines 107-126, on the
\* Scheduler of the model: deploy_jobs (lines 103-105) sets deployed and
\* allocates the workers, which are then queued; an exception of the
\* allocation leaves _workers and the Scheduler as they were
schedule(priority, label) ==
    /\ caller = "idle"
    /\ manager.nschedule < MaxSchedule
    /\ LET d == allocation(manager)
       IN  IF d.raised
           THEN /\ manager' = [manager EXCEPT !.deployed = TRUE,
                                  !.nschedule = @ + 1,
                                  !.last = MgrCall("schedule", <<>>, "none", 0, TRUE)]
                /\ UNCHANGED <<queues_is_none, queues, queues_labels, background_binder,
                               submitted, counters, runs, caller, ncalls, last_call,
                               worker>>
           ELSE /\ manager' = [manager EXCEPT !.deployed = TRUE,
                                  !.workers_is_none = FALSE,
                                  !.workers = d.workers,
                                  !.nschedule = @ + 1,
                                  !.last = MgrCall("schedule", <<>>, "none",
                                                   Len(d.workers), FALSE)]
                /\ queue([kind |-> "list",
                          list |-> Batch(Len(d.workers), ncalls + 1, NoneVal),
                          dict |-> EmptyDict], priority, label)

InitMgr ==
    /\ SchedulerNew
    /\ worker = NoWorker
    /\ manager = ManagerNew

NextMgr ==
    \/ \E cmd \in Templates : set_cmd(cmd)
    \/ \E label \in ArgLabels, a \in ArgInputs : set_arg(label, a)
    \/ \E priority \in Prios \cup {NoneVal}, label \in Labels \cup {NoLabel} :
          schedule(priority, label)

\* one Manager that is given a command and arguments and schedules its jobs
\* on one Scheduler
SpecMgr == InitMgr /\ [][NextMgr]_vars

\* ---- what a step of a behaviour does --------------------------------------
\* run r starts executing a step (lines 64-80)
StepStarts(r) == runs[r].pc = "loop" /\ runs'[r].pc = "step"

\* run r records the terminal state of its step (lines 96-102)
StepEnds(r) == runs[r].pc = "step" /\ runs'[r].pc = "loop"

\* a worker of the step that run r is executing starts running
JobStarts(r) ==
    /\ runs[r].pc = "step"
    /\ runs'[r].pc = "step"
    /\ \E i \in 1 .. Len(runs[r].st) :
           runs[r].st[i] = "queued" /\ runs'[r].st[i] = "running"

\* this step of the behaviour is a call of queue()
QueueCalled == ncalls' = ncalls + 1

\* every worker of step p has reported its result
Reported(p) ==
    Len(succeeded_workers[p]) + Len(failed_workers[p]) = total_num_of_workers[p]

\* in how many of the three step lists p is
Memberships(p) ==
    (IF InList(p, succeeded_steps) THEN 1 ELSE 0)
    + (IF InList(p, failed_steps) THEN 1 ELSE 0)
    + (IF InList(p, incomplete_steps) THEN 1 ELSE 0)

\* the steps that carry label l
Carrying(l) == {p \in DOMAIN queues_labels : queues_labels[p] = l}

\* ---- C1 --------------------------------------------------------------------
\* C1: when a step of N >= 1 jobs ends with no successful job, its priority
\* is put in the failed-steps list and in neither of the other two lists.
C1_ZeroSuccessesFailed ==
    [][\A r \in 1 .. Len(runs) :
          (StepEnds(r) /\ Len(runs[r].workers) >= 1
                       /\ Len(succeeded_workers[runs[r].order]) = 0)
          => /\ InList(runs[r].order, failed_steps')
             /\ ~InList(runs[r].order, incomplete_steps')
             /\ ~InList(runs[r].order, succeeded_steps')]_vars

\* ---- C2 --------------------------------------------------------------------
\* C2: when a step of N >= 1 jobs ends with k successful jobs, it is recorded
\* Succeeded iff k = N and recorded Incomplete iff 0 < k < N.
C2_SucceededIffAllIncompleteIffSome ==
    [][\A r \in 1 .. Len(runs) :
          (StepEnds(r) /\ Len(runs[r].workers) >= 1)
          => LET order == runs[r].order
                 N == Len(runs[r].workers)
                 k == Len(succeeded_workers[order])
             IN  /\ InList(order, succeeded_steps') <=> k = N
                 /\ InList(order, incomplete_steps') <=> (0 < k /\ k < N)]_vars

\* ---- C3 --------------------------------------------------------------------
\* C3: once a foreground submit has returned normally, every step that the
\* run executed is in exactly one of the succeeded / failed / incomplete lists.
C3_ExecutedStepsStayRecorded ==
    \A r \in 1 .. Len(runs) :
        (r = Len(runs) /\ runs[r].mode = "foreground" /\ runs[r].pc = "done")
        => \A k \in 1 .. Len(runs[r].executed) : Memberships(runs[r].executed[k]) = 1

\* ---- C4 --------------------------------------------------------------------
\* C4: whatever the order in which the steps were queued, a run starts the
\* steps it executes in strictly ascending order of priority.
C4_AscendingOrder ==
    \A r \in 1 .. Len(runs) :
        \A i, j \in 1 .. Len(runs[r].executed) :
            i < j => runs[r].executed[i] < runs[r].executed[j]

\* a run has executed step 0 and then step 1, and step 1 was queued first
C4_Witness ==
    \E r \in 1 .. Len(runs) :
        /\ runs[r].executed = <<0, 1>>
        /\ queues[1][1].batch < queues[0][1].batch

\* ---- C5 --------------------------------------------------------------------
\* C5: within a run, a step starts only when every worker of the step before
\* it has reported and that step's terminal state is recorded, and a worker
\* starts only when every worker of the earlier steps of the run has reported.
C5_StepsDoNotOverlap ==
    [][\A r \in 1 .. Len(runs) :
          /\ (StepStarts(r) /\ runs[r].order # NoneVal)
                => Reported(runs[r].order) /\ Memberships(runs[r].order) >= 1
          /\ JobStarts(r)
                => \A k \in 1 .. (Len(runs[r].executed) - 1) :
                       Reported(runs[r].executed[k])]_vars

\* a worker of the second step of a run is running after a first step of
\* two workers
C5_Witness ==
    \E r \in 1 .. Len(runs) :
        /\ runs[r].pc = "step"
        /\ Len(runs[r].executed) = 2
        /\ Running(runs[r]) # {}
        /\ total_num_of_workers[runs[r].executed[1]] = 2

\* ---- C6 --------------------------------------------------------------------
\* C6: a priority in the succeeded-steps list stays in it, and no run starts
\* a step, or a worker of a step, whose priority is in that list.
C6_SucceededIsTerminal ==
    [][/\ \A i \in 1 .. Len(succeeded_steps) :
             InList(succeeded_steps[i], succeeded_steps')
       /\ \A r \in 1 .. Len(runs) :
             /\ StepStarts(r) => ~InList(runs'[r].order, succeeded_steps)
             /\ JobStarts(r) => ~InList(runs[r].order, succeeded_steps)]_vars

\* a step succeeded in the first run; after a further queue call a second
\* run has executed another step and has ended without touching the first
C6_Witness ==
    /\ Len(runs) = 2
    /\ runs[2].pc = "done"
    /\ runs[2].executed # <<>>
    /\ ncalls = 2
    /\ \E p \in DOMAIN queues :
          /\ InList(p, succeeded_steps)
          /\ InList(p, runs[1].executed)
          /\ ~InList(p, runs[2].executed)

\* ---- C7 --------------------------------------------------------------------
\* C7: queue(jobs, label=L), L the label of a step that is Succeeded, changes
\* nothing: not the queue, not the label index, not a ScheduleState counter.
C7_RequeueSucceededIsNoOp ==
    [][(/\ QueueCalled
        /\ last_call'.kind = "list"
        /\ last_call'.priority = NoneVal
        /\ last_call'.label # NoLabel
        /\ \E p \in Carrying(last_call'.label) : InList(p, succeeded_steps))
       => UNCHANGED <<queues_is_none, queues, queues_labels, counters>>]_vars

\* ---- C8 --------------------------------------------------------------------
\* C8: queue(jobs, label=L), L the label of a step that is Failed or
\* Incomplete, puts the new batch in place of that step's jobs at the step's
\* priority, creates no priority, and takes the step out of the failed and
\* incomplete lists.
C8_RequeueFailedReplaces ==
    [][(/\ QueueCalled
        /\ last_call'.kind = "list"
        /\ last_call'.priority = NoneVal
        /\ last_call'.label # NoLabel)
       => \A p \in Carrying(last_call'.label) :
              (InList(p, failed_steps) \/ InList(p, incomplete_steps))
              => /\ DOMAIN queues' = DOMAIN queues
                 /\ queues'[p] = Batch(last_call'.n, ncalls', NoneVal)
                 /\ ~InList(p, failed_steps')
                 /\ ~InList(p, incomplete_steps')]_vars

\* ---- C9 --------------------------------------------------------------------
\* C9: queue(jobs) with a list and no priority places the batch at priority 0
\* if the queue is empty and at max(existing priorities) + 1 otherwise.
C9_DefaultPriority ==
    [][(/\ QueueCalled
        /\ last_call'.kind = "list"
        /\ last_call'.priority = NoneVal)
       => LET p == IF queues_is_none \/ DOMAIN queues = {} THEN 0
                   ELSE Max(DOMAIN queues) + 1
          IN  /\ p \in DOMAIN queues'
              /\ queues'[p] = Batch(last_call'.n, ncalls', NoneVal)]_vars

\* ---- C10 -------------------------------------------------------------------
\* C10: queue(jobs, priority=p, label=L), L carried by no step, makes the
\* batch the step at priority p with label L, on the first call as on later
\* ones, and the other steps keep their jobs and labels.
C10_ExplicitPriorityNewStep ==
    [][(/\ QueueCalled
        /\ last_call'.kind = "list"
        /\ last_call'.priority # NoneVal
        /\ last_call'.label # NoLabel
        /\ Carrying(last_call'.label) = {})
       => LET p == last_call'.priority
          IN  /\ p \in DOMAIN queues'
              /\ queues'[p] = Batch(last_call'.n, ncalls', NoneVal)
              /\ queues_labels'[p] = last_call'.label
              /\ \A q \in (DOMAIN queues) \ {p} :
                    queues'[q] = queues[q] /\ queues_labels'[q] = queues_labels[q]]_vars

\* ---- C11 -------------------------------------------------------------------
\* C11: with no error terms configured, Worker.run returns 0 (Success) when
\* the process's return code is 0 and 1 (Failure) for every other integer
\* return code, positive or negative.
C11_ClassifiedByReturnCode ==
    (worker.pc = "ran" /\ worker.error_term.none)
      => worker.ret = (IF worker.h_rcode = 0 THEN 0 ELSE 1)

\* ---- C12 -------------------------------------------------------------------
\* a line of the stderr stream contains one of the error terms
StderrMatches(w) ==
    \E i \in 1 .. Len(w.h_stderr) :
        /\ w.h_stderr[i] # <<>>
        /\ check_error(w.h_stderr[i], w.error_term.list)

\* C12: with error terms configured and no stderr line containing any of them
\* (stderr may have no line at all), Worker.run returns 0 (Success) whatever
\* the return code and stores the output as (stderr, stdout).
C12_NoMatchSucceedsSwapped ==
    (worker.pc = "ran" /\ ~worker.error_term.none /\ ~StderrMatches(worker))
      => /\ worker.ret = 0
         /\ worker.output = <<pars_output(worker.h_stderr), pars_output(worker.h_stdout)>>

\* ---- C13 -------------------------------------------------------------------
\* C13: when the run() of one job of a step raises (its process could not be
\* launched or read), the job is recorded as a failed job of the step and the
\* run stays in the step, so that the siblings are still collected, the step
\* reaches a terminal state and the later steps are executed.
C13_RaisingJobRecordedFailed ==
    [][\A r \in 1 .. Len(runs), i \in 1 .. MaxJobs :
          JobRaise(r, i)
            => /\ InList(runs[r].workers[i].id, failed_workers'[runs[r].order])
               /\ runs'[r].pc = "step"]_vars

\* ---- C14 -------------------------------------------------------------------
\* C14: whatever result code the run() of a job returns (0, 1 or any other
\* value), the job is recorded as succeeded or failed and the step loop goes
\* on: submit does not raise because of a job's outcome.
C14_NoRaiseOnJobOutcome ==
    [][\A r \in 1 .. Len(runs), i \in 1 .. MaxJobs, rcode \in Rcodes :
          JobDone(r, i, rcode)
            => /\ runs'[r].pc # "error"
               /\ \/ InList(runs[r].workers[i].id, succeeded_workers'[runs[r].order])
                  \/ InList(runs[r].workers[i].id, failed_workers'[runs[r].order])]_vars

\* ---- C15 -------------------------------------------------------------------
\* C15: when a fault has ended the step loop of a background run, the
\* scheduler's state records it: the step the loop was executing is listed
\* as failed or incomplete, so that a caller who finds the thread stopped can
\* tell that the run did not complete.
C15_BackgroundFaultRecorded ==
    \A r \in 1 .. Len(runs) :
        (runs[r].mode = "background" /\ runs[r].pc = "error")
          => \/ InList(runs[r].order, failed_steps)
             \/ InList(runs[r].order, incomplete_steps)

\* ---- C16 -------------------------------------------------------------------
\* number of occurrences of x in a list
Count(x, list) == Cardinality({i \in 1 .. Len(list) : list[i] = x})

\* the thread of the run is inside the step loop of workflow()
InLoop(run) == run.pc \in {"loop", "init", "step"}

\* C16: a submit made while a background run is active is rejected or waits
\* for it: no two runs of the scheduler are inside the step loop at the same
\* time, and no priority is listed twice in the list of succeeded steps.
C16_RunsDoNotOverlap ==
    /\ \A r1, r2 \in 1 .. Len(runs) :
          (InLoop(runs[r1]) /\ InLoop(runs[r2])) => r1 = r2
    /\ \A p \in Prios : Count(p, succeeded_steps) <= 1

\* ---- C17 -------------------------------------------------------------------
\* a submit(mode='background') call
SubmitsBg ==
    /\ Len(runs') = Len(runs) + 1
    /\ runs'[Len(runs')].mode = "background"

\* a join() call returns to the caller
JoinReturns ==
    /\ last_call'.kind = "join"
    /\ caller' = "idle"
    /\ caller = "joining" \/ last_call.kind # "join"

\* the background runs whose thread has not left workflow()
LiveBg == {r \in 1 .. Len(runs) : runs[r].mode = "background" /\ ThreadAlive(runs[r])}

\* C17: submit(mode='background') gives control back to the caller before
\* any line of the loop has run; is_alive() is true exactly while the thread
\* of a background run has not left workflow(); join() returns only when the
\* background loop has ended.
C17_BackgroundSubmitAndJoin ==
    [][/\ SubmitsBg
          => /\ caller' = "idle"
             /\ runs'[Len(runs')].pc = "start"
             /\ runs'[Len(runs')].executed = <<>>
             /\ \A r \in 1 .. Len(runs) : runs'[r] = runs[r]
       /\ (is_alive' = "True") <=> (LiveBg' # {})
       /\ JoinReturns => LiveBg' = {}]_vars

\* ---- C18 -------------------------------------------------------------------
\* workflow() of run r returns
Returns(r) == runs[r].pc # "done" /\ runs'[r].pc = "done"

\* C18: when a foreground submit returns normally, every step of the queue
\* that was not succeeded when submit was called has been executed once by
\* this run and has its worker total recorded, and no job of the run is
\* still running or waiting.
C18_ForegroundDrainsQueue ==
    [][\A r \in 1 .. Len(runs) :
          (Returns(r) /\ runs[r].mode = "foreground")
            => /\ Running(runs'[r]) = {}
               /\ Queued(runs'[r]) = {}
               /\ \A p \in DOMAIN queues' :
                     ~InList(p, runs[r].seen)
                       => /\ Count(p, runs'[r].executed) = 1
                          /\ p \in DOMAIN total_num_of_workers'
                          /\ total_num_of_workers'[p] = Len(queues'[p])]_vars

\* ---- C19 -------------------------------------------------------------------
\* the jobs that are executing, of whichever run
Executing == UNION {{<<r, i>> : i \in Running(runs[r])} : r \in 1 .. Len(runs)}

\* C19: with n_threads = NThreads, the jobs executing at the same time never
\* number more than NThreads, however many jobs a step holds.
C19_PoolBounded == Cardinality(Executing) <= NThreads

\* ---- C20 -------------------------------------------------------------------
\* C20: a summary() or check_progress() call made at any point of a
\* background run returns without a KeyError on a per-step counter.
C20_ReportsDoNotRaise ==
    last_call.kind \in {"summary", "check_progress"} => ~last_call.raised

\* ---- C24 -------------------------------------------------------------------
\* a summary() or check_progress() call
ReportCalled ==
    /\ last_call' # last_call
    /\ last_call'.kind \in {"summary", "check_progress"}

\* C24: a queue() call, whatever its priority and label, and a summary() or
\* check_progress() call leave the step count, the lists of succeeded, failed
\* and incomplete steps, the per-step totals and lists of succeeded and
\* failed workers and the collected outputs as they were.
C24_OnlySubmitMutatesState ==
    [][(QueueCalled \/ ReportCalled) => UNCHANGED counters]_vars

\* queue() was called with the label of a step that is listed as incomplete
C24_Witness ==
    /\ ncalls = MaxQueueCalls
    /\ last_call.kind = "list"
    /\ last_call.label # NoLabel
    /\ ~last_call.raised
    /\ \E p \in Carrying(last_call.label) : InList(p, incomplete_steps)

\* ---- C25 -------------------------------------------------------------------
\* the steps of the queue that no run has started
NeverRun == {p \in DOMAIN queues : p \notin DOMAIN total_num_of_workers}

\* the steps of the queue that a run has started and that are not succeeded
NotSucceeded ==
    {p \in DOMAIN queues :
        p \in DOMAIN total_num_of_workers /\ ~InList(p, succeeded_steps)}

\* C25: whenever summary() reports an overall state, it matches the
\* scheduler: "Active" exactly when a background run is alive (none is, here),
\* "Finished" only when every step of the queue is succeeded, "Submission
\* needed" when the queue holds steps that no submit has run, and otherwise
\* every step that is failed or incomplete is listed.
C25_SummaryStateMatches ==
    (caller = "idle" /\ SummaryState # "Empty schedule")
      => /\ SummaryState # "Active"
         /\ SummaryState = "Finished"
              => \A p \in DOMAIN queues : InList(p, succeeded_steps)
         /\ NeverRun # {} => SummaryState = "Submission needed"
         /\ (NeverRun = {} /\ NotSucceeded # {})
              => (SummaryState = "Listing" /\ NotSucceeded \subseteq SummaryListed)

\* ---- C26 -------------------------------------------------------------------
\* workflow() of run r is left, by return or by an exception
RunEnds(r) == ThreadAlive(runs[r]) /\ ~ThreadAlive(runs'[r])

\* the ids of the workers of a step, in queue order
Ids(workers) == [i \in 1 .. Len(workers) |-> workers[i].id]

\* the two lists hold the same elements the same number of times
SameBag(a, b) ==
    /\ Len(a) = Len(b)
    /\ \A i \in 1 .. Len(a) : Count(a[i], a) = Count(a[i], b)

\* C26: a submit re-enters every step that was not succeeded when it was
\* called: the step's lists of succeeded and failed workers are emptied and
\* all its jobs are handed to the pool again; when the run is over the
\* step's counters report each of its jobs once, and the step is listed as
\* succeeded exactly if all of them succeeded and as failed or incomplete
\* otherwise.
C26_ResubmitStartsAfresh ==
    [][\A r \in 1 .. Len(runs) :
          /\ StepStarts(r)
               => LET p == runs'[r].order
                  IN  /\ succeeded_workers'[p] = <<>>
                      /\ failed_workers'[p] = <<>>
                      /\ runs'[r].workers = queues[p]
                      /\ Queued(runs'[r]) = 1 .. Len(queues[p])
          /\ RunEnds(r)
               => \A p \in DOMAIN queues' :
                     ~InList(p, runs[r].seen)
                       => /\ Count(p, runs'[r].executed) = 1
                          /\ SameBag(succeeded_workers'[p] \o failed_workers'[p],
                                     Ids(queues'[p]))
                          /\ InList(p, succeeded_steps')
                               <=> Len(succeeded_workers'[p]) = Len(queues'[p])
                          /\ \/ InList(p, succeeded_steps')
                             \/ InList(p, failed_steps')
                             \/ InList(p, incomplete_steps')]_vars

\* ---- C28 -------------------------------------------------------------------
\* C28: when a step ends, the ids of its succeeded jobs and the ids of its
\* failed jobs have no id in common, and the number of succeeded plus failed
\* jobs is the recorded worker total of the step, which is the number of
\* jobs in the step's queue entry.
C28_StepCountersPartition ==
    [][\A r \in 1 .. Len(runs) :
          StepEnds(r)
            => LET p == runs[r].order
               IN  /\ \A i \in 1 .. Len(succeeded_workers'[p]) :
                         ~InList(succeeded_workers'[p][i], failed_workers'[p])
                   /\ Len(succeeded_workers'[p]) + Len(failed_workers'[p])
                        = total_num_of_workers'[p]
                   /\ total_num_of_workers'[p] = Len(queues'[p])]_vars

\* ---- C29 -------------------------------------------------------------------
\* the jobs of step p that a run has handed to the pool: a step is started
\* with the whole queue entry and the entry only grows at its end, so these
\* are its first total_num_of_workers[p] jobs
HandedOver(p) ==
    IF p \in DOMAIN total_num_of_workers
    THEN {i \in 1 .. Len(queues[p]) : i <= total_num_of_workers[p]}
    ELSE {}

\* C29: when a foreground submit returns normally, every job that queue()
\* accepted before it has been handed to the pool and has run, also a job
\* queued with the priority of a step that already existed.
C29_QueuedJobsRun ==
    [][\A r \in 1 .. Len(runs) :
          (Returns(r) /\ runs[r].pc = "loop")
            => \A p \in DOMAIN queues' :
                  HandedOver(p)' = 1 .. Len(queues'[p])]_vars

\* ---- C30 -------------------------------------------------------------------
\* C30: when a foreground submit returns normally, the collectors hold, for
\* every step the run executed and every job of the step, the output of that
\* job under the step's key and the job's id.
C30_CollectorsHoldEveryJob ==
    [][\A r \in 1 .. Len(runs) :
          (Returns(r) /\ runs[r].pc = "loop")
            => \A i \in 1 .. Len(runs[r].executed) :
                  LET p   == runs[r].executed[i]
                      key == CollectorKey(runs[r].use_label, p)
                  IN  /\ key \in DOMAIN out_collector'
                      /\ \A j \in 1 .. Len(queues'[p]) :
                            /\ queues'[p][j].id \in DOMAIN out_collector'[key]
                            /\ out_collector'[key][queues'[p][j].id] = queues'[p][j]]_vars

\* ---- C21 -------------------------------------------------------------------
ScheduleCalled == manager'.nschedule = manager.nschedule + 1

\* the placeholder names of the command are not the labels of the arguments
Mismatch ==
    /\ ~manager.cmd_is_none
    /\ FindAll(manager.cmd, 1) # DOMAIN manager.args

\* C21: a schedule() on a Manager whose placeholder names are not exactly
\* its argument labels raises in that call, and the Scheduler's queue, its
\* label index and its runs are what they were before the call.
C21_MismatchRejectedAtSchedule ==
    [][(ScheduleCalled /\ Mismatch)
         => /\ manager'.last.raised
            /\ UNCHANGED <<queues_is_none, queues, queues_labels, runs>>]_vars

\* a batch is queued, then an argument without a placeholder is set and
\* schedule() raised
C21_Witness ==
    /\ manager.last.op = "schedule"
    /\ manager.last.raised
    /\ Mismatch
    /\ FindAll(manager.cmd, 1) # {}
    /\ FindAll(manager.cmd, 1) \subseteq DOMAIN manager.args
    /\ ~queues_is_none
    /\ \E p \in DOMAIN queues : Len(queues[p]) > 0

\* ---- C22 -------------------------------------------------------------------
SetArgCalled == manager'.nsetarg = manager.nsetarg + 1

\* C22: a set_arg() with a list that is not as long as a sequence already
\* stored raises; a set_arg() that raised left the arguments and n_workers as
\* they were; and after every set_arg() all stored sequences are n_workers
\* long.
C22_ArgumentLengthsAgree ==
    [][SetArgCalled
         => LET c == manager'.last
            IN  /\ (/\ c.kind = "list"
                    /\ \E k \in DOMAIN manager.args : Len(manager.args[k]) # c.len)
                      => c.raised
                /\ c.raised => /\ manager'.args = manager.args
                               /\ manager'.n_workers = manager.n_workers
                /\ \A k \in DOMAIN manager'.args :
                      Len(manager'.args[k]) = manager'.n_workers]_vars

\* a list of another length was given after lists of two values, and raised
C22_Witness ==
    /\ manager.last.op = "set_arg"
    /\ manager.last.kind = "list"
    /\ manager.last.raised
    /\ manager.n_workers = 2
    /\ \E k \in DOMAIN manager.args : /\ Len(manager.args[k]) = 2
                                      /\ manager.last.len # 2

\* ---- C23 -------------------------------------------------------------------
\* the template from position i on with every placeholder replaced by the
\* idx-th value of its label, and every other character kept
RECURSIVE Substituted(_, _, _, _)
Substituted(s, i, args, idx) ==
    IF i > Len(s) THEN <<>>
    ELSE LET m == MatchAt(s, i)
         IN  IF m.found THEN args[m.name][idx] \o Substituted(s, m.next, args, idx)
             ELSE <<s[i]>> \o Substituted(s, m.next, args, idx)

\* C23: a schedule() on a Manager whose placeholder names are its argument
\* labels deploys n_workers jobs with the ids 0 .. n_workers - 1 in that
\* order, and the command of job i is the template with every placeholder
\* replaced by the i-th value of its label.
C23_ExpansionSubstitutes ==
    [][(ScheduleCalled /\ ~manager.cmd_is_none /\ ~Mismatch)
         => /\ ~manager'.last.raised
            /\ manager'.workers =
                 [i \in 1 .. manager.n_workers |->
                     [id |-> i - 1,
                      cmd |-> Substituted(manager.cmd, 1, manager.args, i)]]]_vars

\* ---- C27 -------------------------------------------------------------------
\* C27: when the only argument set so far is one scalar, a set_arg() of
\* another label with a list of n > 1 values is accepted, n_workers is n and
\* the scalar's label holds n copies of the scalar.
C27_ScalarFirstBroadcast ==
    [][(/\ SetArgCalled
        /\ manager.last.op = "set_arg"
        /\ manager.last.kind = "scalar"
        /\ ~manager.last.raised
        /\ DOMAIN manager.args = {manager.last.label}
        /\ manager'.last.kind = "list"
        /\ manager'.last.len > 1
        /\ manager'.last.label # manager.last.label)
         => /\ ~manager'.last.raised
            /\ manager'.n_workers = manager'.last.len
            /\ manager'.args[manager.last.label] =
                 [i \in 1 .. manager'.last.len |->
                     manager.args[manager.last.label][1]]]_vars

\* ---- C31 -------------------------------------------------------------------
\* C31: under fair scheduling, with every worker.run() ending, every run that
\* submit() started ends; a Scheduler with a background thread comes to
\* answer is_alive() with False; and a caller waiting in join() gets control
\* back.
C31_RunsEnd ==
    /\ \A r \in 1 .. MaxSubmits :
          [](r <= Len(runs) => <>(r <= Len(runs) /\ ~ThreadAlive(runs[r])))
    /\ (background_binder # 0) ~> (is_alive = "False")
    /\ (caller = "joining") ~> (caller = "idle" /\ last_call.kind = "join")

\* join() was called while the background run was in a step, and the run
\* has ended since
C31_Witness ==
    /\ caller = "joining"
    /\ runs[background_binder].mode = "background"
    /\ runs[background_binder].executed # <<>>
    /\ ~ThreadAlive(runs[background_binder])

====
